---- MODULE Spec2Model ----
(***************************************************************************)
(* Gallery API server (server/app.js, server/db.js): the gallery_items     *)
(* table, database initialisation with its seed data, and the four HTTP    *)
(* handlers (list, upload, favourite toggle, delete) as interleaved steps  *)
(* of requests in flight.  Every `await` on a statement that reads or      *)
(* writes the table is a step boundary; synchronous code is part of the    *)
(* step it follows.                                                        *)
(***************************************************************************)
EXTENDS Integers, Sequences, FiniteSets, Bags, TLC

VARIABLES
    phase,   \* "stopped" or "serving"
    table,   \* the rows of gallery_items, in rowid order
    req,     \* the requests in flight: a bag of handler activations
    resp,    \* the response the last step sent (NoResp: none)
    logged,  \* the console line the last step wrote, of those modelled ("": none)
    clock    \* Date.now()

vars == <<phase, table, req, resp, logged, clock>>

(***************************************************************************)
(* Bounds of the model.                                                    *)
(***************************************************************************)
\* Date.now() takes the values 0 .. MaxClock (milliseconds after the model's epoch).
MaxClock == 1
\* Handler activations in flight at once (a pending fs.unlink callback counts).
MaxInflight == 2

(***************************************************************************)
(* JavaScript and SQL values.                                              *)
(***************************************************************************)
\* SQL NULL / JavaScript null in a column or a field (a string no input produces).
Null == "<null>"
\* A form field that the multipart body does not carry.
Undefined == "<undefined>"

\* String.prototype.substring on 1-based places m..n ("" when the range is empty).
Substring(s, m, n) == IF m > n \/ m < 1 \/ n > Len(s) THEN "" ELSE SubSeq(s, m, n)

\* String.prototype.startsWith
StartsWith(s, p) == Len(s) >= Len(p) /\ Substring(s, 1, Len(p)) = p

\* String.prototype.charAt on 1-based places ("" outside the string).
CharAt(s, i) == Substring(s, i, i)

\* path.basename: what follows the last "/" of the path.
BaseName(p) ==
    LET slashes == {i \in 1..Len(p) : CharAt(p, i) = "/"}
        last == IF slashes = {} THEN 0 ELSE CHOOSE i \in slashes : \A j \in slashes : j <= i
    IN Substring(p, last + 1, Len(p))

(***************************************************************************)
(* JSON.  A value is [t |-> "array", a |-> <<values>>], [t |-> "string",   *)
(* s |-> chars] or [t |-> "null"]; a text is a string of characters.  The  *)
(* grammar covered is arrays, string literals without escapes, and null,   *)
(* with no white space: the texts the model feeds in stay within it.       *)
(***************************************************************************)
JsArray(a) == [t |-> "array", a |-> a, s |-> ""]
JsString(s) == [t |-> "string", a |-> <<>>, s |-> s]
JsNull == [t |-> "null", a |-> <<>>, s |-> ""]

\* An array of strings, from a sequence of strings.
StringArray(strs) == JsArray([i \in 1..Len(strs) |-> JsString(strs[i])])

IsStringArray(v) == v.t = "array" /\ \A i \in 1..Len(v.a) : v.a[i].t = "string"

ParseFail == [ok |-> FALSE, val |-> JsNull, next |-> 0]

RECURSIVE ScanString(_, _)
\* The index of the quote that closes a string literal whose body starts at i (0: none).
ScanString(text, i) ==
    IF i > Len(text) THEN 0
    ELSE IF CharAt(text, i) = "\"" THEN i
    ELSE IF CharAt(text, i) = "\\" THEN 0
    ELSE ScanString(text, i + 1)

RECURSIVE ParseValue(_, _)
RECURSIVE ParseElements(_, _, _)
\* One JSON value starting at character i: [ok, val, next].
ParseValue(text, i) ==
    IF i > Len(text) THEN ParseFail
    ELSE IF CharAt(text, i) = "\"" THEN
        LET close == ScanString(text, i + 1)
        IN IF close = 0 THEN ParseFail
           ELSE [ok |-> TRUE, val |-> JsString(Substring(text, i + 1, close - 1)), next |-> close + 1]
    ELSE IF CharAt(text, i) = "[" THEN
        IF i + 1 <= Len(text) /\ CharAt(text, i + 1) = "]"
        THEN [ok |-> TRUE, val |-> JsArray(<<>>), next |-> i + 2]
        ELSE ParseElements(text, i + 1, <<>>)
    ELSE IF Substring(text, i, i + 3) = "null"
        THEN [ok |-> TRUE, val |-> JsNull, next |-> i + 4]
    ELSE ParseFail

\* The elements of an array after its "[" or a ",", up to its "]".
ParseElements(text, i, acc) ==
    LET e == ParseValue(text, i)
    IN IF ~e.ok \/ e.next > Len(text) THEN ParseFail
       ELSE IF CharAt(text, e.next) = "]"
            THEN [ok |-> TRUE, val |-> JsArray(Append(acc, e.val)), next |-> e.next + 1]
       ELSE IF CharAt(text, e.next) = ","
            THEN ParseElements(text, e.next + 1, Append(acc, e.val))
       ELSE ParseFail

\* JSON.parse: [ok, val]; ok is FALSE where JSON.parse throws a SyntaxError.
JSONParse(text) ==
    LET r == ParseValue(text, 1)
    IN IF r.ok /\ r.next = Len(text) + 1
       THEN [ok |-> TRUE, val |-> r.val]
       ELSE [ok |-> FALSE, val |-> JsNull]

RECURSIVE JSONStringify(_)
RECURSIVE StringifyElements(_, _)
\* JSON.stringify of a value JSON.parse can return.
JSONStringify(v) ==
    IF v.t = "string" THEN "\"" \o v.s \o "\""
    ELSE IF v.t = "null" THEN "null"
    ELSE "[" \o StringifyElements(v.a, 1) \o "]"

StringifyElements(a, i) ==
    IF i > Len(a) THEN ""
    ELSE JSONStringify(a[i]) \o (IF i < Len(a) THEN "," ELSE "") \o StringifyElements(a, i + 1)

(***************************************************************************)
(* The gallery_items table: rows in rowid order (the order of              *)
(* SELECT * FROM gallery_items).                                           *)
(***************************************************************************)
Ids(t) == {t[i].id : i \in 1..Len(t)}

HasId(t, id) == id \in Ids(t)

RowOf(t, id) == t[CHOOSE i \in 1..Len(t) : t[i].id = id]

\* INSERT INTO gallery_items: the PRIMARY KEY and NOT NULL constraints of the schema.
InsertError(t, row) ==
    IF HasId(t, row.id) THEN "SQLITE_CONSTRAINT: UNIQUE constraint failed: gallery_items.id"
    ELSE IF row.type = Null \/ row.src = Null \/ row.dateGroup = Null
         THEN "SQLITE_CONSTRAINT: NOT NULL constraint failed"
    ELSE ""

\* DELETE FROM gallery_items WHERE id = ?
DeleteRow(t, id) == SelectSeq(t, LAMBDA r : r.id # id)

\* UPDATE gallery_items SET isFavorite = ? WHERE id = ?
UpdateFavorite(t, id, v) ==
    [i \in 1..Len(t) |-> IF t[i].id = id THEN [t[i] EXCEPT !.isFavorite = v] ELSE t[i]]

\* result.changes of a DELETE or UPDATE ... WHERE id = ?
Changes(t, id) == IF HasId(t, id) THEN 1 ELSE 0

(***************************************************************************)
(* db.js: the seed data and initializeDatabase.                            *)
(***************************************************************************)
Seed(id, type, src, alt, poster, categories, isFavorite, dateGroup) ==
    [id |-> id, type |-> type, src |-> src, alt |-> alt, poster |-> poster,
     categories |-> categories, isFavorite |-> isFavorite, dateGroup |-> dateGroup]

initialMockGalleryItems == <<
    Seed("img-001", "image", "/source/Pics/identity_veeshna_01.jpg", "identity_veeshna_01.jpg", Undefined,
         <<"library", "nature", "landscape">>, 0, "May 1, 2025"),
    Seed("vid-001", "video", "https://www.w3schools.com/html/mov_bbb.mp4", "Big Buck Bunny short clip",
         "https://source.unsplash.com/random/800x600?forest,animals",
         <<"library", "videos", "animals">>, 0, "May 1, 2025"),
    Seed("img-002", "image", "/source/Pics/identity_veeshna_03.jpg", "identity_veeshna_03.jpg", Undefined,
         <<"library", "people", "portraits">>, 1, "May 1, 2025"),
    Seed("img-003", "image", "/source/Pics/identity_veeshna_02.jpg", "identity_veeshna_02.jpg", Undefined,
         <<"library", "city">>, 0, "May 1, 2025"),
    Seed("img-004", "image", "/source/Pics/identity_renuka_02.jpg", "identity_renuka_02.jpg", Undefined,
         <<"library", "food">>, 0, "May 1, 2025"),
    Seed("img-005", "image", "/source/Pics/identity_renuka_01.jpg", "identity_renuka_01.jpg", Undefined,
         <<"library", "nature", "landscape", "trips">>, 0, "April 15, 2025"),
    Seed("img-006", "image", "https://source.unsplash.com/random/600x800?architecture,building",
         "Modern glass skyscraper exterior", Undefined,
         <<"library", "architecture", "city">>, 0, "April 15, 2025"),
    Seed("vid-002", "video", "http://commondatastorage.googleapis.com/gtv-videos-bucket/sample/ElephantsDream.mp4",
         "Animated sequence from Elephants Dream", "https://source.unsplash.com/random/800x600?dream,fantasy",
         <<"library", "videos", "animation">>, 1, "April 15, 2025"),
    Seed("img-007", "image", "https://source.unsplash.com/random/800x800?animals,cat",
         "Cute fluffy cat relaxing", Undefined,
         <<"library", "animals", "favorites">>, 0, "April 15, 2025"),
    Seed("img-008", "image", "https://source.unsplash.com/random/1200x800?flower,garden",
         "Vibrant blooming flower in a garden", Undefined,
         <<"library", "nature", "garden">>, 0, "April 15, 2025"),
    Seed("img-009", "image", "https://source.unsplash.com/random/800x600?beach,ocean",
         "Tropical beach with clear blue ocean", Undefined,
         <<"library", "nature", "trips">>, 0, "March 5, 2025"),
    Seed("img-010", "image", "https://source.unsplash.com/random/600x800?coffee,drink",
         "Steaming cup of coffee on a table", Undefined,
         <<"library", "everyday">>, 0, "March 5, 2025"),
    Seed("vid-003", "video", "https://www.w3schools.com/html/movie.mp4", "Generic movie trailer",
         "https://source.unsplash.com/random/800x600?movie,cinema",
         <<"library", "videos">>, 0, "March 5, 2025"),
    Seed("img-011", "image", "https://source.unsplash.com/random/800x800?wildlife,bird",
         "Colorful bird perched on a branch", Undefined,
         <<"library", "animals">>, 0, "March 5, 2025"),
    Seed("img-012", "image", "/source/Pics/identity_veeshna_04.jpg", "Cozy cabin in a snowy landscape", Undefined,
         <<"library", "nature", "trips">>, 0, "January 20, 2025"),
    Seed("img-013", "image", "https://source.unsplash.com/random/600x800?fireworks,celebration",
         "Fireworks exploding in night sky", Undefined,
         <<"library", "celebration", "events">>, 1, "January 20, 2025")
>>

\* The row insertStmt.run binds for a seed item (item.poster || null, JSON.stringify(item.categories)).
SeedRow(item) ==
    [id |-> item.id, type |-> item.type, src |-> item.src, alt |-> item.alt,
     poster |-> IF item.poster = Undefined THEN Null ELSE item.poster,
     isFavorite |-> item.isFavorite, dateGroup |-> item.dateGroup,
     categories |-> JSONStringify(StringArray(item.categories))]

\* A check that seeds whenever seed rows are missing, not only on an empty table.
isTableShort(t) == Len(t) < Len(initialMockGalleryItems)

\* isTableEmpty: SELECT COUNT(*) ... ; count.count === 0
isTableEmpty(t) == Len(t) = 0

RECURSIVE SeedFromOffByOne(_, _)
\* A seeding loop that stops one item early.
SeedFromOffByOne(t, i) ==
    IF i >= Len(initialMockGalleryItems) THEN [ok |-> TRUE, table |-> t]
    ELSE IF InsertError(t, SeedRow(initialMockGalleryItems[i])) # "" THEN [ok |-> FALSE, table |-> t]
    ELSE SeedFromOffByOne(Append(t, SeedRow(initialMockGalleryItems[i])), i + 1)

RECURSIVE SeedFrom(_, _)
\* The seeding loop from item i on: each insert commits on its own; the first one
\* that fails throws, which ends the loop with the rows inserted so far in place.
SeedFrom(t, i) ==
    IF i > Len(initialMockGalleryItems) THEN [ok |-> TRUE, table |-> t]
    ELSE LET row == SeedRow(initialMockGalleryItems[i])
         IN IF InsertError(t, row) # "" THEN [ok |-> FALSE, table |-> t]
            ELSE SeedFrom(Append(t, row), i + 1)

\* initializeDatabase: [ok, table]; ok is FALSE where the catch block runs process.exit(1).
initializeDatabase(t) ==
    IF isTableEmpty(t) THEN SeedFrom(t, 1) ELSE [ok |-> TRUE, table |-> t]

(***************************************************************************)
(* new Date(label): the labels of the model are "<Month> <D>, <YYYY>"      *)
(* (the legacy date format of the seed data), a bare year "<YYYY>" (ISO),  *)
(* or text that is no date.  The value is in days, which keeps the sign of *)
(* every difference of two dates.                                          *)
(***************************************************************************)
DigitValue(c) ==
    CASE c = "0" -> 0 [] c = "1" -> 1 [] c = "2" -> 2 [] c = "3" -> 3 [] c = "4" -> 4
      [] c = "5" -> 5 [] c = "6" -> 6 [] c = "7" -> 7 [] c = "8" -> 8 [] c = "9" -> 9
      [] OTHER -> -1

RECURSIVE DigitsValue(_, _, _)
\* The number a string of decimal digits writes (-1: not all digits, or empty).
DigitsValue(s, i, acc) ==
    IF i > Len(s) THEN (IF Len(s) = 0 THEN -1 ELSE acc)
    ELSE IF DigitValue(CharAt(s, i)) < 0 THEN -1
    ELSE DigitsValue(s, i + 1, acc * 10 + DigitValue(CharAt(s, i)))

MonthNumber(name) ==
    CASE name = "January" -> 1 [] name = "February" -> 2 [] name = "March" -> 3
      [] name = "April" -> 4 [] name = "May" -> 5 [] name = "June" -> 6
      [] name = "July" -> 7 [] name = "August" -> 8 [] name = "September" -> 9
      [] name = "October" -> 10 [] name = "November" -> 11 [] name = "December" -> 12
      [] OTHER -> 0

InvalidDate == [valid |-> FALSE, days |-> 0]

\* The day number of a month, a day and a year already read (0 and -1: not read).
DayNumber(y, m, d) ==
    IF m > 0 /\ d >= 1 /\ d <= 31 /\ y >= 0
    THEN [valid |-> TRUE, days |-> (y * 12 + (m - 1)) * 31 + d]
    ELSE InvalidDate

\* "<Month> <D>, <YYYY>" with its first space at sp and its comma at cm.
LegacyDate(label, sp, cm) ==
    IF sp < cm /\ cm + 1 <= Len(label) /\ CharAt(label, cm + 1) = " "
    THEN DayNumber(DigitsValue(Substring(label, cm + 2, Len(label)), 1, 0),
                   MonthNumber(Substring(label, 1, sp - 1)),
                   DigitsValue(Substring(label, sp + 1, cm - 1), 1, 0))
    ELSE InvalidDate

\* The least index of label that holds character c (0: none).
IndexOf(label, c) ==
    IF \E i \in 1..Len(label) : CharAt(label, i) = c
    THEN CHOOSE i \in 1..Len(label) :
            CharAt(label, i) = c /\ \A j \in 1..(i - 1) : CharAt(label, j) # c
    ELSE 0

CountOf(label, c) == Cardinality({i \in 1..Len(label) : CharAt(label, i) = c})

\* new Date(label): [valid, days]; valid is FALSE for an Invalid Date (its value is NaN).
NewDate(label) ==
    IF Len(label) = 4 /\ \A i \in 1..4 : DigitValue(CharAt(label, i)) >= 0
    THEN DayNumber(DigitsValue(label, 1, 0), 1, 1)
    ELSE IF CountOf(label, " ") = 2 /\ CountOf(label, ",") = 1
    THEN LegacyDate(label, IndexOf(label, " "), IndexOf(label, ","))
    ELSE InvalidDate

(***************************************************************************)
(* app.js, GET /api/gallery.                                               *)
(***************************************************************************)
\* item.categories || '[]'
CategoriesText(categories) ==
    IF categories = Null \/ categories = "" THEN "[]" ELSE categories

\* ({...item, isFavorite: Boolean(item.isFavorite), categories: <parsed>})
ProcessedItem(row, parsed) ==
    [ok |-> parsed.ok,
     item |-> [id |-> row.id, type |-> row.type, src |-> row.src, alt |-> row.alt,
               poster |-> row.poster, isFavorite |-> (row.isFavorite # 0),
               dateGroup |-> row.dateGroup, categories |-> parsed.val]]

\* The map callback on one row: [ok, item]; ok is FALSE where JSON.parse throws.
ProcessItem(row) == ProcessedItem(row, JSONParse(CategoriesText(row.categories)))

\* [ok, items] of the rows' [ok, item].
Collect(ps) ==
    [ok |-> \A i \in 1..Len(ps) : ps[i].ok, items |-> [i \in 1..Len(ps) |-> ps[i].item]]

\* processedItems = items.map(...): [ok, items].
ProcessItems(rows) == Collect([i \in 1..Len(rows) |-> ProcessItem(rows[i])])

\* Properties every object inherits from Object.prototype: groupedData[key] is
\* truthy for them although groupedData = {} has no such own property.
ObjectPrototypeKeys ==
    {"constructor", "toString", "toLocaleString", "valueOf", "hasOwnProperty",
     "isPrototypeOf", "propertyIsEnumerable", "__proto__",
     "__defineGetter__", "__defineSetter__", "__lookupGetter__", "__lookupSetter__"}

\* The place of key among the own properties of groupedData (0: none).
GroupIndex(groups, key) ==
    IF \E i \in 1..Len(groups) : groups[i].id = key
    THEN CHOOSE i \in 1..Len(groups) : groups[i].id = key
    ELSE 0

\* The forEach callback on one item, at == GroupIndex(groups, item.dateGroup):
\* [ok, groups]; ok is FALSE where groupedData[item.dateGroup] is inherited, its
\* .items undefined, and push throws a TypeError.
GroupItem(groups, item, at) ==
    IF at > 0
    THEN [ok |-> TRUE, groups |-> [groups EXCEPT ![at].items = Append(@, item)]]
    ELSE IF item.dateGroup \in ObjectPrototypeKeys
    THEN [ok |-> FALSE, groups |-> groups]
    ELSE [ok |-> TRUE,
          groups |-> Append(groups, [id |-> item.dateGroup, date |-> item.dateGroup,
                                     items |-> <<item>>])]

RECURSIVE GroupItems(_, _, _)
\* processedItems.forEach(...) from item i on, g == [ok, groups] so far; groups holds
\* the own properties of groupedData in the order they were created.
GroupItems(items, i, g) ==
    IF i > Len(items) \/ ~g.ok THEN g
    ELSE GroupItems(items, i + 1,
                    GroupItem(g.groups, items[i], GroupIndex(g.groups, items[i].dateGroup)))

\* A property key that is an array index (a canonical numeric string): -1 when it is none.
ArrayIndex(key) ==
    IF Len(key) <= 9 /\ (Len(key) = 1 \/ CharAt(key, 1) # "0")
    THEN DigitsValue(key, 1, 0)
    ELSE -1

RECURSIVE SortedIndexKeys(_)
\* The groups under array-index keys, in ascending order of the index.
SortedIndexKeys(gs) ==
    IF gs = {} THEN <<>>
    ELSE LET g == CHOOSE x \in gs : \A y \in gs : ArrayIndex(x.id) <= ArrayIndex(y.id)
         IN <<g>> \o SortedIndexKeys(gs \ {g})

\* Object.values(groupedData): array-index keys in ascending order, then the other
\* keys in the order of their creation.
ObjectValues(groups) ==
    SortedIndexKeys({groups[i] : i \in {j \in 1..Len(groups) : ArrayIndex(groups[j].id) >= 0}})
        \o SelectSeq(groups, LAMBDA g : ArrayIndex(g.id) < 0)

\* The difference of two Date objects: [nan, v].
DateDifference(db, da) ==
    IF da.valid /\ db.valid THEN [nan |-> FALSE, v |-> db.days - da.days]
    ELSE [nan |-> TRUE, v |-> 0]

\* The comparator with its operands swapped: (a, b) => new Date(a.date) - new Date(b.date)
DateCompareAscending(a, b) == DateDifference(NewDate(a.date), NewDate(b.date))

\* (a, b) => new Date(b.date) - new Date(a.date)
DateCompare(a, b) == DateDifference(NewDate(b.date), NewDate(a.date))

\* A comparator result as the sort reads it: NaN counts as 0.
NaNToZero(c) == IF c.nan THEN 0 ELSE c.v

\* The sort's call of the comparator.
SortCompare(x, y) == NaNToZero(DateCompare(x, y))

RECURSIVE RunLength(_, _, _)
\* CountAndMakeRun's loop: the length of the run w[1..] that idx - 1 ends, extended
\* while the order (strictly descending, or not descending) holds.
RunLength(w, idx, isDescending) ==
    IF idx > Len(w) THEN idx - 1
    ELSE IF isDescending = (SortCompare(w[idx], w[idx - 1]) >= 0) THEN idx - 1
    ELSE RunLength(w, idx + 1, isDescending)

Reverse(s) == [i \in 1..Len(s) |-> s[Len(s) + 1 - i]]

\* The work array with its first run reversed in place when it descends: [w, run].
MakeRun(w, isDescending, run) ==
    [w |-> IF isDescending THEN Reverse(SubSeq(w, 1, run)) \o SubSeq(w, run + 1, Len(w)) ELSE w,
     run |-> run]

\* The run that starts the work array, given the order of its first two elements.
CountRun(w, isDescending) == MakeRun(w, isDescending, RunLength(w, 3, isDescending))

\* CountAndMakeRun: [w, run].
CountAndMakeRun(w) == CountRun(w, SortCompare(w[2], w[1]) < 0)

RECURSIVE BinarySearch(_, _, _, _)
\* The insertion point of pivot in w[left+1 .. right] (0-based left, right as in V8).
BinarySearch(w, pivot, left, right) ==
    IF left >= right THEN left
    ELSE IF SortCompare(pivot, w[left + ((right - left) \div 2) + 1]) < 0
    THEN BinarySearch(w, pivot, left, left + ((right - left) \div 2))
    ELSE BinarySearch(w, pivot, left + ((right - left) \div 2) + 1, right)

\* w with w[start + 1] moved to place left + 1.
InsertAt(w, start, left) ==
    SubSeq(w, 1, left) \o <<w[start + 1]>> \o SubSeq(w, left + 1, start)
        \o SubSeq(w, start + 2, Len(w))

RECURSIVE BinaryInsertionSort(_, _)
\* BinaryInsertionSort: w[1..start] is sorted; insert w[start+1], w[start+2], ...
BinaryInsertionSort(w, start) ==
    IF start >= Len(w) THEN w
    ELSE BinaryInsertionSort(InsertAt(w, start, BinarySearch(w, w[start + 1], 0, start)),
                             start + 1)

\* The sort of a run found: the rest inserted by binary search.
SortFromRun(r) == BinaryInsertionSort(r.w, r.run)

\* Array.prototype.sort with the comparator, as V8 runs it on fewer than 64
\* elements: one run found by CountAndMakeRun, the rest inserted by binary search.
ArraySort(w) == IF Len(w) < 2 THEN w ELSE SortFromRun(CountAndMakeRun(w))

\* The response from what grouping returned: [status, body].
GroupedResponse(g) ==
    IF g.ok THEN [status |-> 200, body |-> ArraySort(ObjectValues(g.groups))]
    ELSE [status |-> 500, body |-> <<>>]

\* The response from processedItems: a throw of JSON.parse ends in the catch block.
ProcessedResponse(p) ==
    IF p.ok THEN GroupedResponse(GroupItems(p.items, 1, [ok |-> TRUE, groups |-> <<>>]))
    ELSE [status |-> 500, body |-> <<>>]

\* The GET handler on the rows db.all returned: [status, body].
ListResponse(rows) == ProcessedResponse(ProcessItems(rows))

(***************************************************************************)
(* Requests and responses.                                                 *)
(***************************************************************************)
NoFile == [originalname |-> "", mimetype |-> "", filename |-> ""]

NoBody == [alt |-> Undefined, categories |-> Undefined, dateGroup |-> Undefined]

\* A handler activation: its route (op), the await it stands at (pc), and its locals.
NewReq ==
    [op |-> "", pc |-> "", id |-> "", fav |-> 0, src |-> "", type |-> "",
     file |-> NoFile, body |-> NoBody, cats |-> ""]

NoResp == [op |-> "", status |-> 0, id |-> "", isFavorite |-> FALSE, error |-> "", body |-> <<>>]

Response(op, status, id, error) ==
    [op |-> op, status |-> status, id |-> id, isFavorite |-> FALSE, error |-> error, body |-> <<>>]

InFlight == BagToSet(req)

Admit(r) == req (+) SetToBag({r})

Retire(r) == req (-) SetToBag({r})

Advance(r, next) == (req (-) SetToBag({r})) (+) SetToBag({next})

IsUploadedId(id) == StartsWith(id, "uploaded-")

UploadedIds(t) == {id \in Ids(t) : IsUploadedId(id)}

(***************************************************************************)
(* Process start and stop (app.js startServer; the database file outlives  *)
(* the process, the requests in flight do not).                            *)
(***************************************************************************)
Init ==
    /\ phase = "stopped"
    /\ table = <<>>
    /\ req = EmptyBag
    /\ resp = NoResp
    /\ logged = ""
    /\ clock = 0

\* The last console line of initializeDatabase on table t.
InitLog(t) ==
    IF ~initializeDatabase(t).ok THEN "Error initializing database:"
    ELSE IF isTableEmpty(t) THEN "Initial mock data seeded into the database."
    ELSE "Table \"gallery_items\" checked/created."

\* startServer: await initializeDatabase(), then app.listen.
StartServer ==
    /\ phase = "stopped"
    /\ table' = initializeDatabase(table).table
    /\ phase' = IF initializeDatabase(table).ok THEN "serving" ELSE "stopped"
    /\ logged' = InitLog(table)
    /\ resp' = NoResp
    /\ UNCHANGED <<req, clock>>

\* The process ends: what is in flight is lost, the table stays.
StopServer ==
    /\ phase = "serving"
    /\ phase' = "stopped"
    /\ req' = EmptyBag
    /\ resp' = NoResp
    /\ logged' = ""
    /\ UNCHANGED <<table, clock>>

\* A millisecond passes.
Tick ==
    /\ clock < MaxClock
    /\ clock' = clock + 1
    /\ resp' = NoResp
    /\ logged' = ""
    /\ UNCHANGED <<phase, table, req>>

(***************************************************************************)
(* POST /api/gallery.                                                      *)
(***************************************************************************)
\* multer's filename callback: Date.now() + '-' + file.originalname
StoredFilename(now, originalname) == ToString(now) \o "-" \o originalname

\* `uploaded-${Date.now()}-${Math.random().toString(36).substring(2, 9)}`
UploadId(now, suffix) == "uploaded-" \o ToString(now) \o "-" \o suffix

\* req.file.mimetype.startsWith('image/') ? 'image' : 'video'
UploadType(mimetype) == IF StartsWith(mimetype, "image/") THEN "image" ELSE "video"

\* categories ? JSON.parse(categories) : [], with the catch block's [].
ParsedCategories(categories) ==
    IF categories = Undefined \/ categories = "" THEN JsArray(<<>>)
    ELSE IF JSONParse(categories).ok THEN JSONParse(categories).val
    ELSE JsArray(<<>>)

\* The catch block around JSON.parse(categories) runs.
CategoriesRejected(categories) ==
    categories # Undefined /\ categories # "" /\ ~JSONParse(categories).ok

\* The row stmt.run binds: (id, type, src, alt || originalname, null, 0, dateGroup, JSON.stringify(..)).
UploadRow(r) ==
    [id |-> r.id, type |-> r.type, src |-> r.src,
     alt |-> IF r.body.alt = Undefined \/ r.body.alt = "" THEN r.file.originalname ELSE r.body.alt,
     poster |-> Null, isFavorite |-> 0,
     dateGroup |-> IF r.body.dateGroup = Undefined THEN Null ELSE r.body.dateGroup,
     categories |-> r.cats]

\* upload.single('mediaFile') stores the file and the handler runs up to its first
\* await (type, src, id, the categories to store), the file written within the
\* millisecond; with no file the handler answers 400.  cap: requests admitted at once.
UploadReceive(file, body, suffix, cap) ==
    /\ phase = "serving"
    /\ BagCardinality(req) < cap
    /\ IF file = NoFile
       THEN /\ resp' = Response("upload", 400, "", "No file uploaded.")
            /\ UNCHANGED req
       ELSE /\ LET name == StoredFilename(clock, file.originalname)
               IN req' = Admit([NewReq EXCEPT !.op = "upload", !.pc = "insert",
                                     !.file = [file EXCEPT !.filename = name],
                                     !.body = body,
                                     !.type = UploadType(file.mimetype),
                                     !.src = "/uploads/" \o name,
                                     !.id = UploadId(clock, suffix),
                                     !.cats = JSONStringify(ParsedCategories(body.categories))])
            /\ resp' = NoResp
    /\ logged' = IF file # NoFile /\ CategoriesRejected(body.categories)
                  THEN "Categories not valid JSON, defaulting to empty array:"
                  ELSE ""
    /\ UNCHANGED <<phase, table, clock>>

\* stmt.run(...) and the response: 201, or 500 from the catch block.
UploadInsert(r) ==
    /\ r \in InFlight
    /\ r.op = "upload"
    /\ r.pc = "insert"
    /\ IF InsertError(table, UploadRow(r)) = ""
       THEN /\ table' = Append(table, UploadRow(r))
            /\ resp' = Response("upload", 201, r.id, "")
            /\ logged' = ""
       ELSE /\ table' = table
            /\ resp' = Response("upload", 500, r.id, "Failed to upload item")
            /\ logged' = "Error uploading item: " \o InsertError(table, UploadRow(r))
    /\ req' = Retire(r)
    /\ UNCHANGED <<phase, clock>>

(***************************************************************************)
(* PUT /api/gallery/:id/favorite.                                          *)
(***************************************************************************)
\* A handler that sets the flag instead of flipping it.
AlwaysFavorite(isFavorite) == 1

\* item.isFavorite === 0 ? 1 : 0
NewFavoriteStatus(isFavorite) == IF isFavorite = 0 THEN 1 ELSE 0

\* SELECT isFavorite ... WHERE id = ?; 404 when there is no such row.
ToggleSelect(id, cap) ==
    /\ phase = "serving"
    /\ BagCardinality(req) < cap
    /\ IF HasId(table, id)
       THEN /\ req' = Admit([NewReq EXCEPT !.op = "toggle", !.pc = "update", !.id = id,
                                  !.fav = RowOf(table, id).isFavorite])
            /\ resp' = NoResp
       ELSE /\ resp' = Response("toggle", 404, id, "Item not found")
            /\ UNCHANGED req
    /\ logged' = ""
    /\ UNCHANGED <<phase, table, clock>>

\* UPDATE ... SET isFavorite = ? WHERE id = ?, and the response.
ToggleUpdate(r) ==
    /\ r \in InFlight
    /\ r.op = "toggle"
    /\ r.pc = "update"
    /\ table' = UpdateFavorite(table, r.id, NewFavoriteStatus(r.fav))
    /\ resp' = [Response("toggle", 200, r.id, "") EXCEPT !.isFavorite = (NewFavoriteStatus(r.fav) # 0)]
    /\ req' = Retire(r)
    /\ logged' = ""
    /\ UNCHANGED <<phase, clock>>

(***************************************************************************)
(* DELETE /api/gallery/:id.                                                *)
(***************************************************************************)
\* A handler that does not look at result.changes.
AlwaysDeleted(changes) == 200

\* if (result.changes === 0) 404, else 200
DeleteStatus(changes) == IF changes = 0 THEN 404 ELSE 200

\* A handler that unlinks whatever the src is.
AnySrc(src) == TRUE

\* item.src.startsWith('/uploads/')
IsUploadedSrc(src) == StartsWith(src, "/uploads/")

\* SELECT src ... WHERE id = ?; 404 when there is no such row.
DeleteSelect(id, cap) ==
    /\ phase = "serving"
    /\ BagCardinality(req) < cap
    /\ IF HasId(table, id)
       THEN /\ req' = Admit([NewReq EXCEPT !.op = "delete", !.pc = "run", !.id = id,
                                  !.src = RowOf(table, id).src])
            /\ resp' = NoResp
       ELSE /\ resp' = Response("delete", 404, id, "Item not found")
            /\ UNCHANGED req
    /\ logged' = ""
    /\ UNCHANGED <<phase, table, clock>>

\* DELETE ... WHERE id = ?, the check of result.changes, the call of fs.unlink (its
\* callback left pending) and the response.
DeleteRun(r) ==
    /\ r \in InFlight
    /\ r.op = "delete"
    /\ r.pc = "run"
    /\ table' = DeleteRow(table, r.id)
    /\ IF DeleteStatus(Changes(table, r.id)) = 404
       THEN /\ resp' = Response("delete", 404, r.id, "Item not found in database")
            /\ req' = Retire(r)
            /\ logged' = ""
       ELSE /\ resp' = Response("delete", 200, r.id, "")
            /\ IF IsUploadedSrc(r.src)
               THEN /\ req' = Advance(r, [r EXCEPT !.pc = "unlink", !.src = BaseName(r.src)])
                    /\ logged' = ""
               ELSE /\ req' = Retire(r)
                    /\ logged' = "was not an uploaded file; skipping file deletion."
    /\ UNCHANGED <<phase, clock>>

\* The callback of fs.unlink(filePath, (err) => ...): either way a console line, no more.
UnlinkCallback(r, err) ==
    /\ r \in InFlight
    /\ r.pc = "unlink"
    /\ logged' = IF err THEN "Failed to delete file" ELSE "Successfully deleted file:"
    /\ req' = Retire(r)
    /\ resp' = NoResp
    /\ UNCHANGED <<phase, table, clock>>

(***************************************************************************)
(* GET /api/gallery: db.all and the synchronous processing, one step.      *)
(***************************************************************************)
\* res.json(sortedGroupedData), or res.status(500).json({error: ...})
ListReply(r) ==
    [op |-> "list", status |-> r.status, id |-> "", isFavorite |-> FALSE,
     error |-> IF r.status = 200 THEN "" ELSE "Failed to fetch gallery items",
     body |-> r.body]

\* console.error('Error fetching gallery items:', error) in the catch block.
ListLog(r) == IF r.status = 200 THEN "" ELSE "Error fetching gallery items:"

ListSend(r) ==
    /\ resp' = ListReply(r)
    /\ logged' = ListLog(r)

List ==
    /\ phase = "serving"
    /\ ListSend(ListResponse(table))
    /\ UNCHANGED <<phase, table, req, clock>>

(***************************************************************************)
(* Inputs.                                                                 *)
(***************************************************************************)
\* Values of Math.random().toString(36).substring(2, 9).
Suffixes == {"k3x9q2a", "0z5h1mw"}

Photo == [originalname |-> "photo.jpg", mimetype |-> "image/jpeg", filename |-> ""]

Clip == [originalname |-> "clip.mp4", mimetype |-> "video/mp4", filename |-> ""]

FormBody(alt, categories, dateGroup) ==
    [alt |-> alt, categories |-> categories, dateGroup |-> dateGroup]

PlainBody == FormBody(Undefined, "[\"trips\"]", "May 1, 2025")

\* dateGroup fields: dates (one the date of a seed label written differently, one
\* a bare year), text that is no date, the name of an Object.prototype property,
\* and no field.
DateGroups ==
    {"February 1, 2025", "May 01, 2025", "2025", "someday", "constructor", "", Undefined}

\* categories fields: arrays of strings, malformed text, no field, and JSON that
\* is no array of strings.
CategoryTexts ==
    {"[]", "[\"trips\"]", "[\"trips\",\"nature\"]", "[\"nature\",\"trips\"]",
     "[\"trips\"", "trips,nature", "", Undefined,
     "\"trips\"", "null", "[null]", "[[\"trips\"]]"}

DateGroupBodies == {FormBody("", "[\"trips\"]", d) : d \in DateGroups}

CategoryBodies == {FormBody("Trip", c, "March 5, 2025") : c \in CategoryTexts}

\* Ids that toggle requests name: seed rows (isFavorite 0 and 1), and no row.
ToggleIds == {"img-001", "img-002", "img-999"}

\* Ids that delete requests name: a seed row, the uploaded rows, and no row.
DeleteIds == {"img-001", "img-999"} \cup UploadedIds(table)

(***************************************************************************)
(* Spec: requests interleaved within one run of the process and within one *)
(* millisecond, so that generated names differ by the random suffix only.  *)
(***************************************************************************)
Next ==
    \/ StartServer
    \/ \E file \in {Photo, NoFile}, suffix \in Suffixes :
          UploadReceive(file, PlainBody, suffix, MaxInflight)
    \/ \E r \in InFlight : UploadInsert(r)
    \/ \E id \in {"img-001", "img-999"} : ToggleSelect(id, MaxInflight)
    \/ \E r \in InFlight : ToggleUpdate(r)
    \/ \E id \in DeleteIds : DeleteSelect(id, MaxInflight)
    \/ \E r \in InFlight : DeleteRun(r)
    \/ \E r \in InFlight, err \in BOOLEAN : UnlinkCallback(r, err)
    \/ List

Spec == Init /\ [][Next]_vars

(***************************************************************************)
(* SeqSpec: requests one after another, the clock advancing, the process   *)
(* stopped and started again.                                              *)
(***************************************************************************)
SeqNext ==
    \/ StartServer
    \/ StopServer
    \/ Tick
    \/ \E file \in {Photo, NoFile} : UploadReceive(file, PlainBody, "k3x9q2a", 1)
    \/ \E r \in InFlight : UploadInsert(r)
    \/ \E id \in ToggleIds : ToggleSelect(id, 1)
    \/ \E r \in InFlight : ToggleUpdate(r)
    \/ \E id \in DeleteIds : DeleteSelect(id, 1)
    \/ \E r \in InFlight : DeleteRun(r)
    \/ \E r \in InFlight, err \in BOOLEAN : UnlinkCallback(r, err)
    \/ List

SeqSpec == Init /\ [][SeqNext]_vars

(***************************************************************************)
(* ListSpec: uploads with the dateGroup field varied, one after another,   *)
(* and listings.                                                           *)
(***************************************************************************)
ListNext ==
    \/ StartServer
    \/ Tick
    \/ \E body \in DateGroupBodies : UploadReceive(Clip, body, "k3x9q2a", 1)
    \/ \E r \in InFlight : UploadInsert(r)
    \/ List

ListSpec == Init /\ [][ListNext]_vars

(***************************************************************************)
(* CategoriesSpec: uploads with the categories field varied, one after     *)
(* another, and listings.                                                  *)
(***************************************************************************)
CategoriesNext ==
    \/ StartServer
    \/ Tick
    \/ \E body \in CategoryBodies : UploadReceive(Clip, body, "k3x9q2a", 1)
    \/ \E r \in InFlight : UploadInsert(r)
    \/ List

CategoriesSpec == Init /\ [][CategoriesNext]_vars

(***************************************************************************)
(* Properties.                                                             *)
(***************************************************************************)
\* The rows of t that a listing shows with id img-001, type image and categories
\* ["library", "nature", "landscape"].
FirstSeedRows(t) ==
    {i \in 1..Len(t) :
        /\ t[i].id = "img-001"
        /\ t[i].type = "image"
        /\ ProcessItem(t[i]).ok
        /\ ProcessItem(t[i]).item.categories = StringArray(<<"library", "nature", "landscape">>)}

\* C1 as stated: initializeDatabase on an empty table leaves exactly 17 rows, one
\* of them img-001, an image with categories ["library", "nature", "landscape"].
C1_SeedsSeventeen ==
    [][(phase = "stopped" /\ Len(table) = 0 /\ phase' = "serving")
        => Len(table') = 17 /\ Cardinality(FirstSeedRows(table')) = 1]_vars

\* C1 amended: initializeDatabase on an empty table leaves exactly 16 rows, one of
\* them img-001, an image with categories ["library", "nature", "landscape"].
C1_SeedsSixteen ==
    [][(phase = "stopped" /\ Len(table) = 0 /\ phase' = "serving")
        => Len(table') = 16 /\ Cardinality(FirstSeedRows(table')) = 1]_vars

\* initializeDatabase has just seeded the empty table.
C1_Seeded ==
    /\ logged = "Initial mock data seeded into the database."
    /\ phase = "serving"
    /\ Len(table) = 16

\* C2: initializeDatabase on a table that holds at least one row inserts nothing:
\* the rows are the same after it, whatever uploads, toggles and deletes came before.
C2_InitIdempotent ==
    [][(phase = "stopped" /\ Len(table) > 0) => table' = table]_vars

\* initializeDatabase has just run on a table that uploads and deletes had changed.
C2_RestartedOnChangedTable ==
    /\ logged = "Table \"gallery_items\" checked/created."
    /\ phase = "serving"
    /\ ~HasId(table, "img-001")
    /\ UploadedIds(table) # {}

\* C3: a toggle that runs with no other request in flight flips the stored flag of
\* its row and reports the flag it stored, so that toggles one after another
\* alternate it: false, true, false, ...
C3_SequentialTogglesAlternate ==
    [][(resp'.op = "toggle" /\ resp'.status = 200)
        => /\ HasId(table, resp'.id)
           /\ HasId(table', resp'.id)
           /\ RowOf(table', resp'.id).isFavorite = 1 - RowOf(table, resp'.id).isFavorite
           /\ resp'.isFavorite = (RowOf(table', resp'.id).isFavorite = 1)]_vars

\* A toggle of img-001 (seeded with isFavorite 0) has just reported false: the
\* second of two toggles.
C3_SecondToggle ==
    /\ resp.op = "toggle"
    /\ resp.status = 200
    /\ resp.id = "img-001"
    /\ resp.isFavorite = FALSE
    /\ RowOf(table, "img-001").isFavorite = 0

\* C4: a toggle answers 200 exactly when a row with its id matched its UPDATE, the
\* reported flag then being the stored one, and answers 404 whenever no row
\* matches, a row deleted between the toggle's SELECT and its UPDATE included.
C4_ToggleAnswersForMatchedRow ==
    [][(resp'.op = "toggle")
        => /\ resp'.status \in {200, 404}
           /\ resp'.status = 200 <=> HasId(table, resp'.id)
           /\ resp'.status = 200 =>
                /\ HasId(table', resp'.id)
                /\ resp'.isFavorite = (RowOf(table', resp'.id).isFavorite = 1)]_vars

\* C5: a delete answers 200 exactly when its own DELETE statement removed the row,
\* and 404 otherwise: at most one delete of a row answers 200, and a delete whose
\* SELECT saw a row that another request removed before its DELETE answers 404.
C5_OneDeleteSucceeds ==
    [][(resp'.op = "delete")
        => /\ resp'.status \in {200, 404}
           /\ resp'.status = 200 <=> (HasId(table, resp'.id) /\ ~HasId(table', resp'.id))]_vars

\* A delete has just answered 404 after its SELECT had found the row.
C5_LostTheRace ==
    /\ resp.op = "delete"
    /\ resp.status = 404
    /\ resp.error = "Item not found in database"

\* The fs.unlink callbacks pending.
PendingUnlinks(b) ==
    BagCardinality([r \in {q \in BagToSet(b) : q.pc = "unlink"} |-> b[r]])

\* C6: a delete that answers 200 calls fs.unlink, once, exactly when the src of the
\* row it removed is under /uploads/, which is so for uploaded rows only; no other
\* step calls it; and the callback, failed or not, changes no row and no response.
C6_UnlinkOnlyUploads ==
    [][/\ (resp'.op = "delete" /\ resp'.status = 200)
            => PendingUnlinks(req') = PendingUnlinks(req)
                 + (IF StartsWith(RowOf(table, resp'.id).src, "/uploads/") THEN 1 ELSE 0)
       /\ ~(resp'.op = "delete" /\ resp'.status = 200)
            => PendingUnlinks(req') <= PendingUnlinks(req)
       /\ \A i \in 1..Len(table) :
            StartsWith(table[i].src, "/uploads/") <=> IsUploadedId(table[i].id)
       /\ logged' \in {"Failed to delete file", "Successfully deleted file:"}
            => /\ table' = table
               /\ resp' = NoResp
               /\ PendingUnlinks(req') = PendingUnlinks(req) - 1]_vars

\* The removal of an uploaded row's file has just failed.
C6_UnlinkFailed ==
    /\ logged = "Failed to delete file"
    /\ UploadedIds(table) = {}
    /\ resp = NoResp

\* C7: no two uploads of one run of the process are given the same id, and none
\* fails on the primary key.
C7_UploadIdsUnique ==
    /\ \A r \in InFlight :
         r.op = "upload" =>
            /\ CopiesIn(r, req) = 1
            /\ ~HasId(table, r.id)
            /\ \A q \in InFlight : (q.op = "upload" /\ q.id = r.id) => q = r
    /\ ~(resp.op = "upload" /\ resp.status = 500
         /\ logged = "Error uploading item: SQLITE_CONSTRAINT: UNIQUE constraint failed: gallery_items.id")

\* The sequence of strings a categories field supplies: the array its text writes,
\* or none where the field is absent or does not parse.
SuppliedCategories(field) ==
    IF field = Undefined \/ field = "" \/ ~JSONParse(field).ok THEN JsArray(<<>>)
    ELSE JSONParse(field).val

\* The categories, as a listing shows them, of the seed rows of t are those of the seed data.
SeedCategoriesKept(body) ==
    \A k \in 1..Len(body) : \A n \in 1..Len(body[k].items) :
        \A i \in 1..Len(initialMockGalleryItems) :
            body[k].items[n].id = initialMockGalleryItems[i].id
                => body[k].items[n].categories = StringArray(initialMockGalleryItems[i].categories)

\* C8: the categories a listing returns for a row are a sequence of strings, the
\* one supplied when the row was created (the empty one where the upload's field
\* was absent or did not parse); no categories field makes an upload or a later
\* listing fail.
C8_CategoriesRoundTrip ==
    [][/\ (resp'.op = "upload" /\ resp'.status = 500)
            => logged' = "Error uploading item: SQLITE_CONSTRAINT: UNIQUE constraint failed: gallery_items.id"
       /\ (resp'.op = "upload" /\ resp'.status = 201)
            => \A r \in InFlight :
                 (r.op = "upload" /\ r.id = resp'.id) =>
                    /\ ProcessItem(RowOf(table', r.id)).ok
                    /\ IsStringArray(ProcessItem(RowOf(table', r.id)).item.categories)
                    /\ ProcessItem(RowOf(table', r.id)).item.categories
                         = SuppliedCategories(r.body.categories)
       /\ (resp'.op = "list")
            => /\ resp'.status = 200
               /\ SeedCategoriesKept(resp'.body)
               /\ \A k \in 1..Len(resp'.body) : \A n \in 1..Len(resp'.body[k].items) :
                    IsStringArray(resp'.body[k].items[n].categories)]_vars

AllLabelsParse(t) == \A i \in 1..Len(t) : NewDate(t[i].dateGroup).valid

Labels(t) == {t[i].dateGroup : i \in 1..Len(t)}

ItemIds(items) == [n \in 1..Len(items) |-> items[n].id]

\* One group per label of t, each with its label and the rows of that label in t's order.
GroupsPartition(body, t) ==
    /\ Len(body) = Cardinality(Labels(t))
    /\ {body[k].id : k \in 1..Len(body)} = Labels(t)
    /\ \A k \in 1..Len(body) :
         /\ body[k].date = body[k].id
         /\ ItemIds(body[k].items) = ItemIds(SelectSeq(t, LAMBDA row : row.dateGroup = body[k].id))
         /\ \A n \in 1..Len(body[k].items) : body[k].items[n].dateGroup = body[k].id

\* C9 as stated: where every label parses as a date, a listing holds one group per
\* label, each with the rows of its label in the order of the store, the groups in
\* strictly descending order of their dates.
C9_GroupsStrictlyDescending ==
    (resp.op = "list" /\ AllLabelsParse(table))
        => /\ resp.status = 200
           /\ GroupsPartition(resp.body, table)
           /\ \A j \in 1..Len(resp.body) : \A k \in (j + 1)..Len(resp.body) :
                NewDate(resp.body[j].date).days > NewDate(resp.body[k].date).days

\* C9 amended: where every label parses as a date, a listing holds one group per
\* label, each with the rows of its label in the order of the store, the groups in
\* descending order of their dates: no group comes before a group of a later date
\* (two labels may write the same date).
C9_GroupsDescending ==
    (resp.op = "list" /\ AllLabelsParse(table))
        => /\ resp.status = 200
           /\ GroupsPartition(resp.body, table)
           /\ \A j \in 1..Len(resp.body) : \A k \in (j + 1)..Len(resp.body) :
                NewDate(resp.body[j].date).days >= NewDate(resp.body[k].date).days

\* A listing of the seed rows and an upload dated between two seed groups.
C9_ListedWithUpload ==
    /\ resp.op = "list"
    /\ resp.status = 200
    /\ AllLabelsParse(table)
    /\ Len(resp.body) = 5
    /\ resp.body[4].date = "February 1, 2025"

\* C10: with labels that parse as no date in the table, a listing still answers
\* 200, every group whose label does not parse comes after every group whose label
\* parses, and the groups whose labels parse are in descending order of their dates.
C10_UnparseableLabelsLast ==
    (resp.op = "list")
        => /\ resp.status = 200
           /\ \A j \in 1..Len(resp.body) : \A k \in (j + 1)..Len(resp.body) :
                /\ (NewDate(resp.body[j].date).valid /\ NewDate(resp.body[k].date).valid)
                     => NewDate(resp.body[j].date).days >= NewDate(resp.body[k].date).days
                /\ ~NewDate(resp.body[j].date).valid => ~NewDate(resp.body[k].date).valid

====
